---- MODULE Spec2Model ----
(***************************************************************************)
(* Model of flair/models/relation_extractor_model.py: the RelationExtractor *)
(* configuration, forward_pass (candidate enumeration, gold matching,       *)
(* span pooling), add_entity_markers and the state-dict round trip.         *)
(***************************************************************************)
EXTENDS Integers, Sequences, FiniteSets, TLC

VARIABLES
    model,      \* the RelationExtractor instance: the fields __init__ sets
    op,         \* the method that has run: "init", "forward_pass", ...
    args,       \* the arguments of that call
    result      \* what the call computed (locals and return value)

vars == <<model, op, args, result>>

\* ------------------------------------------------------------------ bounds
MaxSentences == 2      \* sentences in a batch
MaxEntities == 3       \* entity labels on one sentence
MaxRelations == 2      \* gold relation labels on one sentence
MaxTokens == 4         \* tokens of a sentence handed to add_entity_markers

\* ------------------------------------------------------------ value spaces
\* Python's None and a present value of an Optional
None == {}
Some(x) == {x}
Get(opt) == CHOOSE x \in opt : TRUE

\* no-relation sentinel of forward_pass
NoRelation == "O"

EntityTypes == {"PER", "LOC"}
RelationValues == {"capital-of", "born-in"}
TokenTexts == <<"Paris", "France">>
IdxText == <<"1", "2", "3", "4", "5">>

\* ------------------------------------------------------------- flair.data
\* A Span is a non-empty run of tokens of one sentence; tokens are named by
\* their 1-based idx.
Span(sid, idxs) == [sentence |-> sid, tokens |-> idxs]

SpansOf(sid) == { Span(sid, <<1>>), Span(sid, <<2>>), Span(sid, <<1, 2>>) }

\* span[0] and span[-1], as token idx
First(span) == span.tokens[1]
Last(span) == span.tokens[Len(span.tokens)]

\* Span.__eq__: structural, by the member tokens
SpanEq(a, b) == a.sentence = b.sentence /\ a.tokens = b.tokens

\* Span.id_text: the surface text followed by the token indices
IdText(span) ==
    [i \in 1..Len(span.tokens) |-> TokenTexts[span.tokens[i]]]
        \o <<"(">> \o [i \in 1..Len(span.tokens) |-> IdxText[span.tokens[i]]] \o <<")">>

\* faulty variant: a key that forgets which span is the head
UndirectedPositionString(head, tail) ==
    IF \/ First(head) < First(tail)
       \/ First(head) = First(tail) /\ Len(head.tokens) <= Len(tail.tokens)
    THEN IdText(head) \o <<"->">> \o IdText(tail)
    ELSE IdText(tail) \o <<"->">> \o IdText(head)

\* create_position_string(head, tail)
create_position_string(head, tail) == IdText(head) \o <<"->">> \o IdText(tail)

\* Sentence.get_labels(label_type)
get_labels(sentence, label_type) ==
    IF label_type \in DOMAIN sentence.labels THEN sentence.labels[label_type] ELSE <<>>

\* ------------------------------------------------------------ __init__
\* Python's set(iterable), the iterable being a list or a set
PyList(items) == [kind |-> "list", items |-> items]
PySetOf(items) == [kind |-> "set", items |-> items]
PySet(iterable) ==
    IF iterable.kind = "list"
    THEN { iterable.items[i] : i \in 1..Len(iterable.items) }
    ELSE iterable.items

\* RelationExtractor.__init__ with its keyword arguments as a record
RelationExtractor(kw) ==
    [ pooling_operation |-> kw.pooling_operation,
      embeddings |-> kw.embeddings,
      label_dictionary |-> kw.label_dictionary,
      weight_dict |-> kw.loss_weights,
      label_type |-> kw.label_type,
      entity_label_type |-> kw.entity_label_type,
      train_on_gold_pairs_only |-> kw.train_on_gold_pairs_only,
      entity_pair_filters |->
          IF kw.entity_pair_filters # None
          THEN Some(PySet(Get(kw.entity_pair_filters)))
          ELSE None,
      dropout_value |-> kw.dropout_value,
      locked_dropout_value |-> kw.locked_dropout_value,
      word_dropout_value |-> kw.word_dropout_value ]

\* the defaults of __init__'s signature
Defaults ==
    [ train_on_gold_pairs_only |-> FALSE,
      entity_pair_filters |-> None,
      pooling_operation |-> "first_last",
      dropout_value |-> "0.0",
      locked_dropout_value |-> "0.1",
      word_dropout_value |-> "0.0" ]

\* what every model here is built with
Required ==
    [ embeddings |-> "embeddings", label_dictionary |-> "label_dictionary",
      loss_weights |-> "loss_weights", label_type |-> "relation",
      entity_label_type |-> "ner" ]

\* a call of __init__: the keywords given, the defaults for the others
Call(given) ==
    [k \in DOMAIN given \cup DOMAIN Defaults |->
        IF k \in DOMAIN given THEN given[k] ELSE Defaults[k]]

\* the same with the required arguments filled in
New(given) ==
    RelationExtractor(Call([k \in DOMAIN given \cup DOMAIN Required |->
        IF k \in DOMAIN given THEN given[k] ELSE Required[k]]))

\* ------------------------------------------------------------ forward_pass
\* relation_dict of one sentence: later annotations overwrite earlier ones
relation_dict(self, sentence) ==
    LET labels == get_labels(sentence, self.label_type)
        key == [i \in 1..Len(labels) |->
                   create_position_string(labels[i].head, labels[i].tail)]
        keys == { key[i] : i \in 1..Len(labels) }
        last(k) == CHOOSE i \in 1..Len(labels) :
                      /\ key[i] = k
                      /\ \A j \in (i + 1)..Len(labels) : key[j] # k
    IN  [k \in keys |-> labels[last(k)]]

\* faulty variant: a pair without gold label is labelled "O" whatever the flag
PairBodyKeepsNegatives(self, dict, span_label, span_label_2) ==
    LET span_1 == span_label.span
        span_2 == span_label_2.span
        position_string == create_position_string(span_1, span_2)
    IN  IF SpanEq(span_1, span_2) THEN <<>>
        ELSE IF /\ self.entity_pair_filters # None
                /\ <<span_label.value, span_label_2.value>> \notin Get(self.entity_pair_filters)
             THEN <<>>
        ELSE IF position_string \in DOMAIN dict
             THEN << [span_1 |-> span_1, span_2 |-> span_2,
                      label |-> dict[position_string].value] >>
        ELSE << [span_1 |-> span_1, span_2 |-> span_2, label |-> NoRelation] >>

\* faulty variant: the gold lookup comes first, the filter only drops unannotated pairs
PairBodyGoldFirst(self, dict, span_label, span_label_2) ==
    LET span_1 == span_label.span
        span_2 == span_label_2.span
        position_string == create_position_string(span_1, span_2)
    IN  IF SpanEq(span_1, span_2) THEN <<>>
        ELSE IF position_string \in DOMAIN dict
             THEN << [span_1 |-> span_1, span_2 |-> span_2,
                      label |-> dict[position_string].value] >>
        ELSE IF /\ self.entity_pair_filters # None
                /\ <<span_label.value, span_label_2.value>> \notin Get(self.entity_pair_filters)
             THEN <<>>
        ELSE IF self.train_on_gold_pairs_only THEN <<>>
        ELSE << [span_1 |-> span_1, span_2 |-> span_2, label |-> NoRelation] >>

\* The body of the inner loop for (span_label, span_label_2): the candidates
\* it appends (none or one), each with its label.
PairBody(self, dict, span_label, span_label_2) ==
    LET span_1 == span_label.span
        span_2 == span_label_2.span
        position_string == create_position_string(span_1, span_2)
    IN  IF SpanEq(span_1, span_2) THEN <<>>
        ELSE IF /\ self.entity_pair_filters # None
                /\ <<span_label.value, span_label_2.value>> \notin Get(self.entity_pair_filters)
             THEN <<>>
        ELSE IF position_string \in DOMAIN dict
             THEN << [span_1 |-> span_1, span_2 |-> span_2,
                      label |-> dict[position_string].value] >>
        ELSE IF self.train_on_gold_pairs_only THEN <<>>
        ELSE << [span_1 |-> span_1, span_2 |-> span_2, label |-> NoRelation] >>

\* faulty variant: the inner loop starts behind the outer entity (each pair once)
RECURSIVE PairLoopHalf(_, _, _, _, _)
PairLoopHalf(self, dict, span_labels, i, j) ==
    IF i > Len(span_labels) THEN <<>>
    ELSE IF j > Len(span_labels) THEN PairLoopHalf(self, dict, span_labels, i + 1, 1)
    ELSE (IF j <= i THEN <<>> ELSE PairBody(self, dict, span_labels[i], span_labels[j]))
             \o PairLoopHalf(self, dict, span_labels, i, j + 1)

\* faulty variant: the loops are nested the other way round (the tail entity outside)
RECURSIVE PairLoopInnerMajor(_, _, _, _, _)
PairLoopInnerMajor(self, dict, span_labels, i, j) ==
    IF i > Len(span_labels) THEN <<>>
    ELSE IF j > Len(span_labels) THEN PairLoopInnerMajor(self, dict, span_labels, i + 1, 1)
    ELSE PairBody(self, dict, span_labels[j], span_labels[i])
             \o PairLoopInnerMajor(self, dict, span_labels, i, j + 1)

\* The two nested loops over span_labels, from position (i, j) on
RECURSIVE PairLoop(_, _, _, _, _)
PairLoop(self, dict, span_labels, i, j) ==
    IF i > Len(span_labels) THEN <<>>
    ELSE IF j > Len(span_labels) THEN PairLoop(self, dict, span_labels, i + 1, 1)
    ELSE PairBody(self, dict, span_labels[i], span_labels[j])
             \o PairLoop(self, dict, span_labels, i, j + 1)

\* One iteration of the loop over sentences
SentenceCandidates(self, sentence) ==
    PairLoop(self, relation_dict(self, sentence),
             get_labels(sentence, self.entity_label_type), 1, 1)

\* The loop over the batch, from sentence n on
RECURSIVE BatchCandidates(_, _, _)
BatchCandidates(self, sentences, n) ==
    IF n > Len(sentences) THEN <<>>
    ELSE SentenceCandidates(self, sentences[n]) \o BatchCandidates(self, sentences, n + 1)

\* Token.get_embedding() after embeddings.embed(sentences): a vector of
\* length 1 whose entry names the token it was computed for
Embedding(sid, idx) == << [sentence |-> sid, idx |-> idx] >>

\* torch.cat of the pooled token embeddings of one entity pair
PairEmbedding(self, span_1, span_2) ==
    IF self.pooling_operation = "first_last"
    THEN Embedding(span_1.sentence, First(span_1)) \o Embedding(span_1.sentence, Last(span_1))
         \o Embedding(span_2.sentence, First(span_2)) \o Embedding(span_2.sentence, Last(span_2))
    ELSE Embedding(span_1.sentence, First(span_1)) \o Embedding(span_2.sentence, First(span_2))

\* faulty variant: an empty dense batch instead of None
EmbedPairsDense(self, entity_pairs) ==
    Some([i \in 1..Len(entity_pairs) |->
             PairEmbedding(self, entity_pairs[i][1], entity_pairs[i][2])])

\* lines 178-214: the stacked feature batch, or None without any pair.  The
\* three dropouts change entries of the batch, never its rows or their order.
EmbedPairs(self, entity_pairs) ==
    IF Len(entity_pairs) > 0
    THEN Some([i \in 1..Len(entity_pairs) |->
                  PairEmbedding(self, entity_pairs[i][1], entity_pairs[i][2])])
    ELSE None

\* The whole of forward_pass: its locals and what it returns
ForwardResult(self, sentences, return_label_candidates) ==
    LET cands == BatchCandidates(self, sentences, 1)
        N == Len(cands)
        entity_pairs == [i \in 1..N |-> <<cands[i].span_1, cands[i].span_2>>]
        labels == [i \in 1..N |-> <<cands[i].label>>]
        empty_label_candidates ==
            IF return_label_candidates
            THEN [i \in 1..N |-> [head |-> cands[i].span_1, tail |-> cands[i].span_2,
                                  value |-> None, score |-> 0]]
            ELSE <<>>
        sentences_to_label ==
            IF return_label_candidates
            THEN [i \in 1..N |-> cands[i].span_1.sentence]
            ELSE <<>>
        embedded_entity_pairs == EmbedPairs(self, entity_pairs)
    IN  [ entity_pairs |-> entity_pairs,
          labels |-> labels,
          sentences_to_label |-> sentences_to_label,
          empty_label_candidates |-> empty_label_candidates,
          embedded_entity_pairs |-> embedded_entity_pairs,
          returned |-> IF return_label_candidates
                       THEN <<embedded_entity_pairs, labels, sentences_to_label,
                              empty_label_candidates>>
                       ELSE <<embedded_entity_pairs, labels>> ]

forward_pass(sentences, return_label_candidates) ==
    /\ op = "init"
    /\ op' = "forward_pass"
    /\ args' = [sentences |-> sentences, return_label_candidates |-> return_label_candidates]
    /\ result' = ForwardResult(model, sentences, return_label_candidates)
    /\ UNCHANGED model

\* ------------------------------------------------------ add_entity_markers
\* strings are sequences of characters
E1Open == <<" ", "<", "e", "1", ">">>
E1Close == <<" ", "<", "/", "e", "1", ">">>
E2Open == <<" ", "<", "e", "2", ">">>
E2Close == <<" ", "<", "/", "e", "2", ">">>

\* Sentence(text, use_tokenizer=False): the tokens are the maximal runs of
\* non-blank characters of text, from character i on, cur being the run so far
RECURSIVE SplitFrom(_, _, _)
SplitFrom(text, i, cur) ==
    IF i > Len(text) THEN (IF cur = <<>> THEN <<>> ELSE <<cur>>)
    ELSE IF text[i] = " "
         THEN (IF cur = <<>> THEN <<>> ELSE <<cur>>) \o SplitFrom(text, i + 1, <<>>)
    ELSE SplitFrom(text, i + 1, Append(cur, text[i]))

SpaceTokenized(sid, text) == [id |-> sid, tokens |-> SplitFrom(text, 1, <<>>)]

\* Sentence.__getitem__(idx): Python's 0-based index into the token list; the
\* token found has the 1-based token idx (idx + 1)
GetItem(sentence, idx) == idx + 1

\* the locals of add_entity_markers before its loop; the two start ids are
\* unbound until the loop meets the first token of their span
MarkerLocals ==
    [ text |-> <<>>, entity_one_is_first |-> None, offset |-> 0,
      span_1_startid |-> 0, span_2_startid |-> 0 ]

\* lines 77-88: the opening markers in front of token i
OpenMarkers(st, i, span_1, span_2) ==
    LET a == IF i = First(span_2)
             THEN [st EXCEPT !.entity_one_is_first = IF @ = None THEN Some(FALSE) ELSE @,
                             !.offset = @ + 1,
                             !.text = @ \o E2Open,
                             !.span_2_startid = st.offset + 1]
             ELSE st
    IN  IF i = First(span_1)
        THEN [a EXCEPT !.offset = @ + 1,
                       !.text = @ \o E1Open,
                       !.entity_one_is_first = IF @ = None THEN Some(TRUE) ELSE @,
                       !.span_1_startid = a.offset + 1]
        ELSE a

\* faulty variant: the closing markers behind the first token of each span
CloseMarkersAtFirst(st, i, span_1, span_2) ==
    LET a == IF i = First(span_1)
             THEN [st EXCEPT !.offset = @ + 1, !.text = @ \o E1Close]
             ELSE st
    IN  IF i = First(span_2)
        THEN [a EXCEPT !.offset = @ + 1, !.text = @ \o E2Close]
        ELSE a

\* lines 92-97: the closing markers behind token i
CloseMarkers(st, i, span_1, span_2) ==
    LET a == IF i = Last(span_1)
             THEN [st EXCEPT !.offset = @ + 1, !.text = @ \o E1Close]
             ELSE st
    IN  IF i = Last(span_2)
        THEN [a EXCEPT !.offset = @ + 1, !.text = @ \o E2Close]
        ELSE a

\* one iteration of the loop over the sentence's tokens
MarkerStep(st, sentence, i, span_1, span_2) ==
    LET opened == OpenMarkers(st, i, span_1, span_2)
        copied == [opened EXCEPT !.text = @ \o <<" ">> \o sentence.tokens[i]]
        closed == CloseMarkers(copied, i, span_1, span_2)
    IN  [closed EXCEPT !.offset = @ + 1]

RECURSIVE MarkerLoop(_, _, _, _, _)
MarkerLoop(st, sentence, i, span_1, span_2) ==
    IF i > Len(sentence.tokens) THEN st
    ELSE MarkerLoop(MarkerStep(st, sentence, i, span_1, span_2), sentence, i + 1, span_1, span_2)

\* faulty variant: the pair is never swapped
ReturnedSpansUnswapped(entity_one_is_first, expanded_span_1, expanded_span_2) ==
    <<expanded_span_1, expanded_span_2>>

\* lines 106-114: the pair of spans returned
ReturnedSpans(entity_one_is_first, expanded_span_1, expanded_span_2) ==
    IF entity_one_is_first = Some(TRUE)
    THEN <<expanded_span_1, expanded_span_2>>
    ELSE <<expanded_span_2, expanded_span_1>>

\* lines 101-104: the new sentence and the two one-token spans
ExpandedSpan(expanded_sentence, startid) ==
    Span(expanded_sentence.id, << GetItem(expanded_sentence, startid - 1) >>)

MarkerResult(sentence, span_1, span_2) ==
    LET st == MarkerLoop(MarkerLocals, sentence, 1, span_1, span_2)
        expanded_sentence == SpaceTokenized("expanded", st.text)
        expanded_span_1 == ExpandedSpan(expanded_sentence, st.span_1_startid)
        expanded_span_2 == ExpandedSpan(expanded_sentence, st.span_2_startid)
    IN  [ text |-> st.text,
          expanded_sentence |-> expanded_sentence,
          expanded_span_1 |-> expanded_span_1,
          expanded_span_2 |-> expanded_span_2,
          returned |-> << expanded_sentence,
                          ReturnedSpans(st.entity_one_is_first, expanded_span_1, expanded_span_2) >> ]

add_entity_markers(sentence, span_1, span_2) ==
    /\ op = "init"
    /\ op' = "add_entity_markers"
    /\ args' = [sentence |-> sentence, span_1 |-> span_1, span_2 |-> span_2]
    /\ result' = MarkerResult(sentence, span_1, span_2)
    /\ UNCHANGED model

\* ------------------------------------------------------------- state dict
\* the keys _get_state_dict adds to those of the base class
_get_state_dict(self) ==
    [ state_dict |-> "parameters",
      embeddings |-> self.embeddings,
      label_dictionary |-> self.label_dictionary,
      label_type |-> self.label_type,
      entity_label_type |-> self.entity_label_type,
      weight_dict |-> self.weight_dict,
      pooling_operation |-> self.pooling_operation,
      dropout_value |-> self.dropout_value,
      locked_dropout_value |-> self.locked_dropout_value,
      word_dropout_value |-> self.word_dropout_value,
      entity_pair_filters |-> self.entity_pair_filters ]

\* the keyword arguments _init_model_with_state_dict hands to the constructor
_init_model_with_state_dict(state) ==
    RelationExtractor(Call(
        [ embeddings |-> state.embeddings,
          label_dictionary |-> state.label_dictionary,
          label_type |-> state.label_type,
          entity_label_type |-> state.entity_label_type,
          loss_weights |-> state.weight_dict,
          pooling_operation |-> state.pooling_operation,
          dropout_value |-> state.dropout_value,
          locked_dropout_value |-> state.locked_dropout_value,
          word_dropout_value |-> state.word_dropout_value,
          entity_pair_filters |->
              IF state.entity_pair_filters = None THEN None
              ELSE Some(PySetOf(Get(state.entity_pair_filters))) ]))

save ==
    /\ op = "init"
    /\ op' = "_get_state_dict"
    /\ args' = <<>>
    /\ result' = _get_state_dict(model)
    /\ UNCHANGED model

restore ==
    /\ op = "_get_state_dict"
    /\ op' = "_init_model_with_state_dict"
    /\ args' = result
    /\ result' = _init_model_with_state_dict(result)
    /\ UNCHANGED model

\* ------------------------------------------------- inputs of forward_pass
NoRepeat(s) == \A i, j \in 1..Len(s) : i # j => s[i] # s[j]

SeqsUpTo(S, n) == UNION { [1..k -> S] : k \in 0..n }

\* entity labels over the spans S: each span tagged at most once, any order
EntityLabelLists(S) ==
    UNION { { [i \in 1..k |-> [span |-> sp[i], value |-> ty[i]]] :
                sp \in { s \in [1..k -> S] : NoRepeat(s) }, ty \in [1..k -> EntityTypes] }
            : k \in 0..MaxEntities }

\* gold relation labels between two different spans of S
RelationLabels(S, values) ==
    { [head |-> p[1], tail |-> p[2], value |-> v] :
        p \in { q \in S \X S : q[1] # q[2] }, v \in values }

Sentence(sid, entities, relations) ==
    [ id |-> sid, labels |-> [ner |-> entities, relation |-> relations] ]

\* a sentence with any tagging of its spans and any gold relations
RichSentences(sid) ==
    { Sentence(sid, e, r) :
        e \in EntityLabelLists(SpansOf(sid)),
        r \in SeqsUpTo(RelationLabels(SpansOf(sid), RelationValues), MaxRelations) }

\* "Paris ... France" with any tagging of its two one-token entities, with
\* or without the gold relation capital-of(France, Paris)
ExampleSentences(sid) ==
    { Sentence(sid, e, r) :
        e \in EntityLabelLists({Span(sid, <<1>>), Span(sid, <<2>>)}),
        r \in { <<>>, << [head |-> Span(sid, <<2>>), tail |-> Span(sid, <<1>>),
                          value |-> "capital-of"] >> } }

RECURSIVE Batches(_)
Batches(n) ==
    IF n = 0 THEN {<<>>}
    ELSE { Append(b, s) : b \in Batches(n - 1), s \in ExampleSentences(n) }

FilterChoices ==
    { None, Some(PyList(<< <<"PER", "LOC">> >>)), Some(PyList(<< <<"LOC", "LOC">> >>)) }

\* ---------------------------------------------------------- specifications
InitForward ==
    /\ model \in { New([train_on_gold_pairs_only |-> g, entity_pair_filters |-> f]) :
                     g \in BOOLEAN, f \in FilterChoices }
    /\ op = "init"
    /\ args = <<>>
    /\ result = <<>>

NextForward ==
    /\ op = "init"
    /\ \E s \in RichSentences(1) : forward_pass(<<s>>, FALSE)

SpecForward == InitForward /\ [][NextForward]_vars

InitBatch ==
    /\ model \in { New([train_on_gold_pairs_only |-> g, entity_pair_filters |-> f,
                          pooling_operation |-> p]) :
                     g \in BOOLEAN, f \in FilterChoices, p \in {"first_last", "first"} }
    /\ op = "init"
    /\ args = <<>>
    /\ result = <<>>

NextBatch ==
    /\ op = "init"
    /\ \E n \in 1..MaxSentences : \E b \in Batches(n) : \E r \in BOOLEAN : forward_pass(b, r)

SpecBatch == InitBatch /\ [][NextBatch]_vars

\* inputs of add_entity_markers: a sentence of words and two different spans
\* of it, the head and the tail of an entity pair
\* the last word is a token that reads like a marker
Words == { <<"P", "a", "r", "i", "s">>, <<"F", "r", "a", "n", "c", "e">>, <<"<", "e", "1", ">">> }

MarkerSentences == { [id |-> "original", tokens |-> w] :
                       w \in UNION { [1..n -> Words] : n \in 1..MaxTokens } }

ContiguousSpans(sentence) ==
    { Span(sentence.id, [k \in 1..(j - i + 1) |-> i + k - 1]) :
        <<i, j>> \in { p \in (1..Len(sentence.tokens)) \X (1..Len(sentence.tokens)) : p[1] <= p[2] } }

InitMarkers ==
    /\ model = New(<<>>)
    /\ op = "init"
    /\ args = <<>>
    /\ result = <<>>

NextMarkers ==
    /\ op = "init"
    /\ \E sentence \in MarkerSentences :
         \E span_1 \in ContiguousSpans(sentence) :
            \E span_2 \in ContiguousSpans(sentence) \ {span_1} :
                add_entity_markers(sentence, span_1, span_2)

SpecMarkers == InitMarkers /\ [][NextMarkers]_vars

\* configurations saved and restored
DropoutRates == {"0.0", "0.5"}

InitState ==
    /\ model \in { New([train_on_gold_pairs_only |-> g, entity_pair_filters |-> f,
                         pooling_operation |-> p, dropout_value |-> d[1],
                         locked_dropout_value |-> d[2], word_dropout_value |-> d[3],
                         label_type |-> lt, entity_label_type |-> et]) :
                     g \in BOOLEAN, f \in FilterChoices, p \in {"first_last", "first"},
                     d \in DropoutRates \X DropoutRates \X DropoutRates,
                     lt \in {"relation", "rel"}, et \in {"ner", "entity"} }
    /\ op = "init"
    /\ args = <<>>
    /\ result = <<>>

NextState == save \/ restore

SpecState == InitState /\ [][NextState]_vars
\* ------------------------------------------------------ forward_pass claims
Forwarded == op = "forward_pass"

NCand == Len(result.entity_pairs)
PairAt(i) == result.entity_pairs[i]
LabelAt(i) == result.labels[i][1]

\* sentences carry their position in the batch as id
SentenceOf(span) == args.sentences[span.sentence]
GoldLabels(s) == get_labels(s, model.label_type)
EntityLabels(s) == get_labels(s, model.entity_label_type)

\* the gold annotations of sentence s for the ordered pair (a, b), by position
GoldFor(s, a, b) ==
    { n \in 1..Len(GoldLabels(s)) : GoldLabels(s)[n].head = a /\ GoldLabels(s)[n].tail = b }
Annotated(s, a, b) == GoldFor(s, a, b) # {}
IsLastFor(s, n) ==
    \A m \in GoldFor(s, GoldLabels(s)[n].head, GoldLabels(s)[n].tail) : m <= n

\* the output positions holding the candidate (a, b)
CandidatesFor(a, b) == { i \in 1..NCand : PairAt(i) = <<a, b>> }

\* the output positions that belong to the sentence at batch position sid
CandidatesOf(sid) == { i \in 1..NCand : PairAt(i)[1].sentence = sid }

\* the entity type a sentence's labels give a tagged span
TypeOf(span) ==
    LET labels == EntityLabels(SentenceOf(span))
    IN  labels[CHOOSE n \in 1..Len(labels) : labels[n].span = span].value

IndexOf(span) ==
    LET labels == EntityLabels(SentenceOf(span))
    IN  CHOOSE n \in 1..Len(labels) : labels[n].span = span

Allowed(a, b) ==
    model.entity_pair_filters = None \/ <<a.value, b.value>> \in Get(model.entity_pair_filters)

\* the reverse pair of gold annotation g of s is "O" unless annotated itself
ReverseUnaffected(s, g) ==
    \A i \in CandidatesFor(g.tail, g.head) :
        ~Annotated(s, g.tail, g.head) => LabelAt(i) = NoRelation

\* C1 as stated: with a gold RelationLabel(head=A, tail=B, value=V) on the
\* sentence, the candidate for (A, B) carries V, and the candidate for (B, A)
\* carries "O" unless (B, A) is annotated itself.
C1_GoldLabelCarried ==
    Forwarded =>
        \A sid \in 1..Len(args.sentences) :
            LET s == args.sentences[sid]
            IN  \A n \in 1..Len(GoldLabels(s)) :
                    LET g == GoldLabels(s)[n]
                    IN  /\ \A i \in CandidatesFor(g.head, g.tail) : LabelAt(i) = g.value
                        /\ ReverseUnaffected(s, g)

\* C1 amended: the candidate for (A, B) carries the value of the last gold
\* annotation of (A, B) on the sentence (V when (A, B) is annotated once); the
\* candidate for (B, A) carries "O" unless (B, A) is annotated itself.
C1_LastGoldLabelCarried ==
    Forwarded =>
        \A sid \in 1..Len(args.sentences) :
            LET s == args.sentences[sid]
            IN  \A n \in 1..Len(GoldLabels(s)) :
                    LET g == GoldLabels(s)[n]
                    IN  /\ IsLastFor(s, n) =>
                              \A i \in CandidatesFor(g.head, g.tail) : LabelAt(i) = g.value
                        /\ ReverseUnaffected(s, g)

\* (A, B) annotated twice with different values: its candidate carries the
\* second value, the candidate of (B, A) carries "O"
C1_Witness ==
    /\ Forwarded
    /\ LET s == args.sentences[1]
       IN  /\ Len(GoldLabels(s)) = 2
           /\ GoldLabels(s)[1].head = GoldLabels(s)[2].head
           /\ GoldLabels(s)[1].tail = GoldLabels(s)[2].tail
           /\ GoldLabels(s)[1].value # GoldLabels(s)[2].value
           /\ \E i \in CandidatesFor(GoldLabels(s)[2].head, GoldLabels(s)[2].tail) :
                  LabelAt(i) = GoldLabels(s)[2].value
           /\ \E i \in CandidatesFor(GoldLabels(s)[2].tail, GoldLabels(s)[2].head) :
                  LabelAt(i) = NoRelation

\* C2: without pair filter and without train_on_gold_pairs_only a sentence
\* with k tagged entities yields k*(k-1) candidates, one for every ordered
\* pair of two different entities.
C2_AllOrderedPairs ==
    Forwarded /\ model.entity_pair_filters = None /\ ~model.train_on_gold_pairs_only =>
        \A sid \in 1..Len(args.sentences) :
            LET labels == EntityLabels(args.sentences[sid])
                k == Len(labels)
            IN  /\ Cardinality(CandidatesOf(sid)) = k * (k - 1)
                /\ { PairAt(i) : i \in CandidatesOf(sid) }
                     = { <<labels[n].span, labels[m].span>> :
                           <<n, m>> \in { p \in (1..k) \X (1..k) : p[1] # p[2] } }

\* three tagged entities, six candidates
C2_Witness ==
    /\ Forwarded
    /\ model.entity_pair_filters = None
    /\ ~model.train_on_gold_pairs_only
    /\ Len(EntityLabels(args.sentences[1])) = 3
    /\ NCand = 6

\* C3: with train_on_gold_pairs_only no candidate carries "O"; every candidate
\* is a gold-annotated pair, the others are dropped.
C3_NoSentinelOnGoldOnly ==
    Forwarded /\ model.train_on_gold_pairs_only =>
        \A i \in 1..NCand :
            /\ LabelAt(i) # NoRelation
            /\ Annotated(SentenceOf(PairAt(i)[1]), PairAt(i)[1], PairAt(i)[2])

\* two sentences with two entities each, gold on the first only: one candidate
C3_Witness ==
    /\ Forwarded
    /\ model.train_on_gold_pairs_only
    /\ model.entity_pair_filters = None
    /\ Len(args.sentences) = 2
    /\ \A sid \in 1..2 : Len(EntityLabels(args.sentences[sid])) = 2
    /\ Len(GoldLabels(args.sentences[1])) = 1
    /\ Len(GoldLabels(args.sentences[2])) = 0
    /\ NCand = 1
    /\ LabelAt(1) = "capital-of"

\* C8: with a pair filter every candidate has its (head type, tail type) in the
\* filter, gold-annotated or not; without train_on_gold_pairs_only every pair
\* of two different entities with its types in the filter is a candidate.
C8_FilterFirst ==
    Forwarded /\ model.entity_pair_filters # None =>
        /\ \A i \in 1..NCand :
               <<TypeOf(PairAt(i)[1]), TypeOf(PairAt(i)[2])>> \in Get(model.entity_pair_filters)
        /\ ~model.train_on_gold_pairs_only =>
               \A sid \in 1..Len(args.sentences) :
                   LET labels == EntityLabels(args.sentences[sid])
                   IN  \A n, m \in 1..Len(labels) :
                           n # m /\ Allowed(labels[n], labels[m])
                               => CandidatesFor(labels[n].span, labels[m].span) # {}

\* filter {(PER, LOC)}, two LOC entities with a gold relation: no candidate
C8_Witness ==
    /\ Forwarded
    /\ model.entity_pair_filters = Some({ <<"PER", "LOC">> })
    /\ LET s == args.sentences[1]
       IN  /\ Len(EntityLabels(s)) = 2
           /\ \A n \in 1..2 : EntityLabels(s)[n].value = "LOC"
           /\ Annotated(s, EntityLabels(s)[1].span, EntityLabels(s)[2].span)
    /\ NCand = 0

\* no pair of the batch survives the filter and the gold-pairs-only rule
NoPairExpected ==
    \A sid \in 1..Len(args.sentences) :
        LET s == args.sentences[sid]
            labels == EntityLabels(s)
        IN  \A n, m \in 1..Len(labels) :
                n # m =>
                    \/ ~Allowed(labels[n], labels[m])
                    \/ /\ model.train_on_gold_pairs_only
                       /\ ~Annotated(s, labels[n].span, labels[m].span)

\* C9: a batch without any candidate returns None as features and empty lists;
\* a batch with a candidate returns a feature batch.
C9_NoneWithoutCandidates ==
    Forwarded =>
        IF NoPairExpected
        THEN /\ result.returned[1] = None
             /\ result.returned[2] = <<>>
             /\ args.return_label_candidates
                    => result.returned[3] = <<>> /\ result.returned[4] = <<>>
        ELSE /\ result.returned[1] # None
             /\ Len(Get(result.returned[1])) >= 1

\* gold pairs only, two sentences with two entities each, no gold annotation
C9_Witness ==
    /\ Forwarded
    /\ model.train_on_gold_pairs_only
    /\ model.entity_pair_filters = None
    /\ Len(args.sentences) = 2
    /\ \A sid \in 1..2 : /\ Len(EntityLabels(args.sentences[sid])) = 2
                         /\ Len(GoldLabels(args.sentences[sid])) = 0
    /\ args.return_label_candidates
    /\ result.returned[1] = None

\* where the candidate at output position i comes from: batch position of its
\* sentence, position of its head and of its tail among the entity labels
Origin(i) == << PairAt(i)[1].sentence, IndexOf(PairAt(i)[1]), IndexOf(PairAt(i)[2]) >>

Before(x, y) ==
    \/ x[1] < y[1]
    \/ x[1] = y[1] /\ x[2] < y[2]
    \/ x[1] = y[1] /\ x[2] = y[2] /\ x[3] < y[3]

\* the label forward_pass owes the pair (a, b)
OwedLabel(a, b) ==
    LET s == SentenceOf(a)
    IN  IF Annotated(s, a, b)
        THEN GoldLabels(s)[CHOOSE n \in GoldFor(s, a, b) : IsLastFor(s, n)].value
        ELSE NoRelation

\* the feature row is pooled from the tokens of the pair (a, b)
RowOf(row, a, b) ==
    /\ Len(row) = (IF model.pooling_operation = "first_last" THEN 4 ELSE 2)
    /\ row[1] = [sentence |-> a.sentence, idx |-> First(a)]
    /\ row[Len(row)] = [sentence |-> b.sentence,
                        idx |-> IF model.pooling_operation = "first_last"
                                THEN Last(b) ELSE First(b)]

Marked == op = "add_entity_markers"

ExpandedTokens == result.expanded_sentence.tokens

E1OpenToken == Tail(E1Open)
E1CloseToken == Tail(E1Close)
E2OpenToken == Tail(E2Open)
E2CloseToken == Tail(E2Close)
MarkerTokens == {E1OpenToken, E1CloseToken, E2OpenToken, E2CloseToken}

Positions(tok) == { k \in 1..Len(ExpandedTokens) : ExpandedTokens[k] = tok }
Position(tok) == CHOOSE k \in Positions(tok) : TRUE

\* the surface text of a span of the original sentence, token by token
Surface(span) == [k \in 1..Len(span.tokens) |-> args.sentence.tokens[span.tokens[k]]]

IsWord(tok) == tok \notin MarkerTokens

Disjoint(span_1, span_2) == Last(span_1) < First(span_2) \/ Last(span_2) < First(span_1)

\* no token of the original sentence reads like a marker
PlainSentence == \A k \in 1..Len(args.sentence.tokens) : IsWord(args.sentence.tokens[k])

\* a call on a sentence of ordinary words with a head and a tail sharing no token
Ordinary == Marked /\ PlainSentence /\ Disjoint(args.span_1, args.span_2)

\* the token a returned one-token span points at
PointedAt(span) == span.tokens[1]

\* the span points at the first token of the mention, right behind `opening`
PointsAtMention(span, original, opening) ==
    /\ Len(span.tokens) = 1
    /\ PointedAt(span) \in 2..Len(ExpandedTokens)
    /\ ExpandedTokens[PointedAt(span)] = args.sentence.tokens[First(original)]
    /\ ExpandedTokens[PointedAt(span) - 1] = opening

C5_SpansPointAtMentions ==
    Ordinary =>
        /\ PointsAtMention(result.expanded_span_1, args.span_1, E1OpenToken)
        /\ PointsAtMention(result.expanded_span_2, args.span_2, E2OpenToken)

\* the brackets of C6
Bracketed ==
    /\ \A m \in MarkerTokens : Cardinality(Positions(m)) = 1
    /\ Position(E1OpenToken) < Position(E1CloseToken)
    /\ Position(E2OpenToken) < Position(E2CloseToken)
    /\ SubSeq(ExpandedTokens, Position(E1OpenToken) + 1, Position(E1CloseToken) - 1)
           = Surface(args.span_1)
    /\ SubSeq(ExpandedTokens, Position(E2OpenToken) + 1, Position(E2CloseToken) - 1)
           = Surface(args.span_2)
    /\ First(args.span_2) < First(args.span_1)
           => Position(E2OpenToken) < Position(E1OpenToken)
    /\ SelectSeq(ExpandedTokens, IsWord) = args.sentence.tokens

ConfigFields ==
    { "pooling_operation", "entity_pair_filters", "train_on_gold_pairs_only",
      "dropout_value", "locked_dropout_value", "word_dropout_value",
      "label_type", "entity_label_type" }

\* C7: a model rebuilt from the saved state has every configuration field of
\* the model that was saved.
C7_ConfigRoundTrips ==
    op = "_init_model_with_state_dict" =>
        \A f \in ConfigFields : result[f] = model[f]
====
